---- MODULE Spec2Model ----
(***************************************************************************)
(* Model of vt-avt/rust/src/lib.rs: AvtState (an avt::Vt engine wrapped    *)
(* with a dirty tracker), the byte encoders, and the JNI entry points that *)
(* hand AvtState boxes to the JVM as raw addresses.                       *)
(*                                                                         *)
(* Spec      every JNI call is one step (single-threaded caller).          *)
(* SpecRace  two JVM threads call into one session; a call is split at the *)
(*           statements of the handler, so the steps interleave.           *)
(***************************************************************************)
EXTENDS Integers, Sequences, FiniteSets, TLC

VARIABLES
    heap,       \* address -> the boxed AvtState, or a free cell; with history:
                \* stable (see vtFeed), seen (engine size at the last poll_diff)
    resizable,  \* whether the linked engine honours CSI 8 ; rows ; cols t
    issued,     \* history: every handle value vtNew has returned
    closed,     \* history: every handle value vtFree has destroyed
    lastOp,     \* history: the last completed JNI call
    ret,        \* the byte array the last call returned (NullArray if none)
    feedRun,    \* history: the current run of consecutive feeds
    crashed,    \* the process died of undefined behaviour
    pc, call, buf,  \* SpecRace: per-thread position, arguments, local buffer
    raceLog,    \* SpecRace history
    codec       \* SpecCodec: an encoder's input and what it wrote

vars == <<heap, resizable, issued, closed, lastOp, ret, feedRun, crashed,
          pc, call, buf, raceLog, codec>>

raceVars == <<pc, call, buf, raceLog, codec>>

----------------------------------------------------------------------------
(* Bounds *)

MaxAddr == 2
MaxLive == 1
MaxRows == 2
MaxCols == 1
MaxCalls == 3

Addrs == 1..MaxAddr
RowArgs == 1..MaxRows
ColArgs == 1..MaxCols

Min(a, b) == IF a < b THEN a ELSE b

----------------------------------------------------------------------------
(* Bytes *)

ESC == 27

RECURSIVE Decimal(_)
Decimal(n) == IF n < 10 THEN <<48 + n>> ELSE Decimal(n \div 10) \o <<48 + (n % 10)>>

ResizeSeq(rows, cols) ==
    <<ESC, 91, 56, 59>> \o Decimal(rows) \o <<59>> \o Decimal(cols) \o <<116>>

----------------------------------------------------------------------------
(* The avt engine as this file uses it: build, feed, size, cursor, lines. *)

\* avt::Pen: the colours and attributes encode_pen reads, and the faint
\* intensity (SGR 2), which Pen's equality compares and encode_pen never reads.
DefaultPen ==
    [fg |-> [tag |-> "None"], bg |-> [tag |-> "None"],
     bold |-> FALSE, italic |-> FALSE, underline |-> FALSE,
     strikethrough |-> FALSE, blink |-> FALSE, inverse |-> FALSE,
     faint |-> FALSE]

\* A blank cell holds a space (32).
BlankCell == [ch |-> 32, pen |-> DefaultPen]

BlankLines(cols, rows) == [r \in 1..rows |-> [c \in 1..cols |-> BlankCell]]

VtBuild(cols, rows) ==
    [cols |-> cols, rows |-> rows,
     cursor |-> [col |-> 0, row |-> 0, visible |-> TRUE],
     lines |-> BlankLines(cols, rows),
     pstate |-> "ground", params |-> <<>>, cur |-> 0]

VtSize(vt) == <<vt.cols, vt.rows>>

VtLinesCount(vt) == Len(vt.lines)

VtResizeTo(vt, cols, rows) ==
    [vt EXCEPT !.cols = cols, !.rows = rows,
               !.lines = BlankLines(cols, rows),
               !.cursor = [vt.cursor EXCEPT !.col = Min(vt.cursor.col, cols - 1),
                                            !.row = Min(vt.cursor.row, rows - 1)]]

VtExecT(vt, ps, honoured) ==
    IF honoured /\ Len(ps) = 3 /\ ps[1] = 8 /\ ps[2] > 0 /\ ps[3] > 0
    THEN VtResizeTo(vt, ps[3], ps[2])
    ELSE vt

VtFeedByte(vt, b, honoured) ==
    CASE vt.pstate = "ground" ->
            IF b = ESC THEN [vt EXCEPT !.pstate = "esc"] ELSE vt
      [] vt.pstate = "esc" ->
            IF b = 91 THEN [vt EXCEPT !.pstate = "csi", !.params = <<>>, !.cur = 0]
            ELSE [vt EXCEPT !.pstate = "ground"]
      [] OTHER ->
            IF b >= 48 /\ b <= 57
            THEN [vt EXCEPT !.cur = Min(vt.cur * 10 + (b - 48), 9999)]
            ELSE IF b = 59
            THEN [vt EXCEPT !.params = Append(vt.params, vt.cur), !.cur = 0]
            ELSE LET done == [vt EXCEPT !.pstate = "ground", !.params = <<>>, !.cur = 0]
                 IN IF b = 116
                    THEN VtExecT(done, Append(vt.params, vt.cur), honoured)
                    ELSE done

RECURSIVE VtFeedBytes(_, _, _)
VtFeedBytes(vt, bytes, honoured) ==
    IF bytes = <<>> THEN vt
    ELSE VtFeedBytes(VtFeedByte(vt, Head(bytes), honoured), Tail(bytes), honoured)

----------------------------------------------------------------------------
(* Encoders *)

\* write_varint with one more continuation byte than the value needs.
RECURSIVE write_varint_padded(_, _)
write_varint_padded(b, value) ==
    LET byte == value % 128
        rest == value \div 128
    IN IF rest # 0
       THEN write_varint_padded(Append(b, byte + 128), rest)
       ELSE b \o <<byte + 128, 0>>

RECURSIVE write_varint(_, _)
write_varint(b, value) ==
    LET byte == value % 128
        rest == value \div 128
    IN IF rest # 0
       THEN write_varint(Append(b, byte + 128), rest)
       ELSE Append(b, byte)

encode_color(b, color) ==
    CASE color.tag = "Indexed" -> b \o <<0, color.idx>>
      [] color.tag = "RGB" -> b \o <<1, color.r, color.g, color.b>>
      [] OTHER -> Append(b, 2)

encode_pen(b, pen) ==
    LET b1 == encode_color(b, pen.fg)
        b2 == encode_color(b1, pen.bg)
        attrs == (IF pen.bold THEN 1 ELSE 0) + (IF pen.italic THEN 2 ELSE 0)
               + (IF pen.underline THEN 4 ELSE 0) + (IF pen.strikethrough THEN 8 ELSE 0)
               + (IF pen.blink THEN 16 ELSE 0) + (IF pen.inverse THEN 32 ELSE 0)
    IN Append(b2, attrs)

Utf8(ch) ==
    IF ch < 128 THEN <<ch>>
    ELSE <<192 + (ch \div 64), 128 + (ch % 64)>>

RECURSIVE Utf8All(_)
Utf8All(text) == IF text = <<>> THEN <<>> ELSE Utf8(Head(text)) \o Utf8All(Tail(text))

\* The scan of encode_line, a run starting one column after the cell that opens it.
RECURSIVE LineRuns_startAfter(_, _, _, _, _, _)
LineRuns_startAfter(cells, col, runs, pen, text, start) ==
    IF col = Len(cells)
    THEN IF text # <<>> THEN Append(runs, <<start, text, pen[1]>>) ELSE runs
    ELSE LET cell == cells[col + 1]
         IN IF pen = <<>> \/ pen[1] # cell.pen
            THEN LineRuns_startAfter(cells, col + 1,
                          IF text # <<>> THEN Append(runs, <<start, text, pen[1]>>) ELSE runs,
                          <<cell.pen>>, <<cell.ch>>, col + 1)
            ELSE LineRuns_startAfter(cells, col + 1, runs, pen, Append(text, cell.ch), start)

\* The scan of encode_line: runs are <<start, text, pen>>; col is 0-based.
RECURSIVE LineRuns(_, _, _, _, _, _)
LineRuns(cells, col, runs, pen, text, start) ==
    IF col = Len(cells)
    THEN IF text # <<>> THEN Append(runs, <<start, text, pen[1]>>) ELSE runs
    ELSE LET cell == cells[col + 1]
         IN IF pen = <<>> \/ pen[1] # cell.pen
            THEN LineRuns(cells, col + 1,
                          IF text # <<>> THEN Append(runs, <<start, text, pen[1]>>) ELSE runs,
                          <<cell.pen>>, <<cell.ch>>, col)
            ELSE LineRuns(cells, col + 1, runs, pen, Append(text, cell.ch), start)

RECURSIVE WriteRuns(_, _)
WriteRuns(b, runs) ==
    IF runs = <<>> THEN b
    ELSE LET run == Head(runs)
             bytes == Utf8All(run[2])
             b1 == write_varint(b, run[1])
             b2 == write_varint(b1, Len(bytes))
             b3 == encode_pen(b2, run[3])
         IN WriteRuns(b3 \o bytes, Tail(runs))

encode_line(b, cells) ==
    LET runs == LineRuns(cells, 0, <<>>, <<>>, <<>>, 0)
    IN WriteRuns(write_varint(b, Len(runs)), runs)

\* The lines written last to first.
RECURSIVE EncodeLines_reversed(_, _)
EncodeLines_reversed(b, lines) ==
    IF lines = <<>> THEN b
    ELSE EncodeLines_reversed(encode_line(b, lines[Len(lines)]), SubSeq(lines, 1, Len(lines) - 1))

RECURSIVE EncodeLines(_, _)
EncodeLines(b, lines) ==
    IF lines = <<>> THEN b ELSE EncodeLines(encode_line(b, Head(lines)), Tail(lines))

----------------------------------------------------------------------------
(* AvtState *)

\* The sort, descending.
RECURSIVE SortedSeq_desc(_)
SortedSeq_desc(S) ==
    IF S = {} THEN <<>>
    ELSE LET m == CHOOSE x \in S : \A y \in S : x >= y
         IN <<m>> \o SortedSeq_desc(S \ {m})

RECURSIVE SortedSeq(_)
SortedSeq(S) ==
    IF S = {} THEN <<>>
    ELSE LET m == CHOOSE x \in S : \A y \in S : x <= y
         IN <<m>> \o SortedSeq(S \ {m})

RECURSIVE WriteVarints(_, _)
WriteVarints(b, xs) ==
    IF xs = <<>> THEN b ELSE WriteVarints(write_varint(b, Head(xs)), Tail(xs))

\* new, with the resized flag of reset.
new_resized(cols, rows) ==
    [vt |-> VtBuild(cols, rows),
     dirty_lines |-> 0..(rows - 1),
     cursor_changed |-> TRUE,
     resized |-> TRUE]

new(cols, rows) ==
    [vt |-> VtBuild(cols, rows),
     dirty_lines |-> 0..(rows - 1),
     cursor_changed |-> TRUE,
     resized |-> FALSE]

\* reset, adding the new rows to the pending ones instead of replacing them.
reset_union(st, cols, rows) ==
    [vt |-> VtBuild(cols, rows),
     dirty_lines |-> st.dirty_lines \cup (0..(rows - 1)),
     cursor_changed |-> TRUE,
     resized |-> TRUE]

reset(st, cols, rows) ==
    [vt |-> VtBuild(cols, rows),
     dirty_lines |-> 0..(rows - 1),
     cursor_changed |-> TRUE,
     resized |-> TRUE]

\* resize, adding the new rows to the pending ones instead of replacing them.
resize_union(st, cols, rows, honoured) ==
    [vt |-> VtFeedBytes(st.vt, ResizeSeq(rows, cols), honoured),
     dirty_lines |-> st.dirty_lines \cup (0..(rows - 1)),
     cursor_changed |-> TRUE,
     resized |-> TRUE]

resize(st, cols, rows, honoured) ==
    [vt |-> VtFeedBytes(st.vt, ResizeSeq(rows, cols), honoured),
     dirty_lines |-> 0..(rows - 1),
     cursor_changed |-> TRUE,
     resized |-> TRUE]

FeedMarks(st) == 0..(Min(VtLinesCount(st.vt), VtSize(st.vt)[2]) - 1)

\* feed, marking the rows after the bytes went to the engine.
feed_marksAfter(st, bytes, honoured) ==
    LET vt == VtFeedBytes(st.vt, bytes, honoured)
    IN [st EXCEPT !.dirty_lines = st.dirty_lines \cup (0..(Min(VtLinesCount(vt), VtSize(vt)[2]) - 1)),
                  !.vt = vt,
                  !.cursor_changed = TRUE]

\* feed, flipping each row's mark instead of setting it.
feed_toggles(st, bytes, honoured) ==
    [st EXCEPT !.dirty_lines = (st.dirty_lines \ FeedMarks(st)) \cup (FeedMarks(st) \ st.dirty_lines),
               !.vt = VtFeedBytes(st.vt, bytes, honoured),
               !.cursor_changed = TRUE]

feed(st, bytes, honoured) ==
    [st EXCEPT !.dirty_lines = st.dirty_lines \cup FeedMarks(st),
               !.vt = VtFeedBytes(st.vt, bytes, honoured),
               !.cursor_changed = TRUE]

\* encode_snapshot, writing as many lines as there are dirty rows.
encode_snapshot_dirtyOnly(st) ==
    LET size == VtSize(st.vt)
        b1 == write_varint(<<>>, size[1])
        b2 == write_varint(b1, size[2])
        b3 == write_varint(b2, st.vt.cursor.col)
        b4 == write_varint(b3, st.vt.cursor.row)
        b5 == Append(b4, IF st.vt.cursor.visible THEN 1 ELSE 0)
    IN EncodeLines(b5, SubSeq(st.vt.lines, 1,
                              Min(Cardinality(st.dirty_lines), Len(st.vt.lines))))

encode_snapshot(st) ==
    LET size == VtSize(st.vt)
        b1 == write_varint(<<>>, size[1])
        b2 == write_varint(b1, size[2])
        b3 == write_varint(b2, st.vt.cursor.col)
        b4 == write_varint(b3, st.vt.cursor.row)
        b5 == Append(b4, IF st.vt.cursor.visible THEN 1 ELSE 0)
    IN EncodeLines(b5, SubSeq(st.vt.lines, 1, Min(size[2], Len(st.vt.lines))))

DiffBytes(st) ==
    LET b1 == write_varint(<<1>>, Cardinality(st.dirty_lines))
        b2 == WriteVarints(b1, SortedSeq(st.dirty_lines))
        b3 == Append(b2, IF st.cursor_changed THEN 1 ELSE 0)
    IN Append(b3, IF st.resized THEN 1 ELSE 0)

\* The clearing of poll_diff, leaving the resized flag set.
Cleared_keepsResized(st) ==
    [st EXCEPT !.dirty_lines = {}, !.cursor_changed = FALSE]

Cleared(st) ==
    [st EXCEPT !.dirty_lines = {}, !.cursor_changed = FALSE, !.resized = FALSE]

Clean(st) == st.dirty_lines = {} /\ ~st.cursor_changed /\ ~st.resized

\* Option<Vec<u8>> as [some, bytes], with the state poll_diff leaves behind.
poll_diff(st) ==
    IF Clean(st)
    THEN [some |-> FALSE, bytes |-> <<>>, st |-> st]
    ELSE [some |-> TRUE, bytes |-> DiffBytes(st), st |-> Cleared(st)]

----------------------------------------------------------------------------
(* The JNI boundary: a handle is the address of the boxed AvtState. *)

NullArray == <<>>
Indeterminate == <<255>>

FreeCell == [live |-> FALSE]

\* The handle check left out.
IsNullHandle_never(h) == FALSE

IsNullHandle(h) == h = 0

Live(h) == h \in Addrs /\ heap[h].live

\* Byte arrays a caller feeds: empty, a BEL (7, no effect on the screen), and
\* the resize control sequence for each geometry.
FeedInputs ==
    {<<>>, <<7>>} \cup {ResizeSeq(r, c) : r \in RowArgs, c \in ColArgs}

CallHandles == {0} \cup issued

Threads == 1..2

NoRun == [k |-> 0, h |-> 0, diff |-> <<>>]

NoCall == [op |-> "none", h |-> 0, cols |-> 0, rows |-> 0, bytes |-> <<>>]

NoOwed == [rows |-> {}, cc |-> FALSE, rz |-> FALSE]

NoCodec == [kind |-> "none", done |-> FALSE, input |-> <<>>, out |-> <<>>]

Op(name, h, live, ub, ok, rows, vis, len, after, k) ==
    [op |-> name, h |-> h, live |-> live, ub |-> ub, ok |-> ok,
     rows |-> rows, vis |-> vis, len |-> len, after |-> after, k |-> k]

Init ==
    /\ heap = [a \in Addrs |-> FreeCell]
    /\ resizable \in BOOLEAN
    /\ issued = {}
    /\ closed = {}
    /\ lastOp = Op("init", 0, FALSE, "none", TRUE, 0, 0, 0, "", 0)
    /\ ret = NullArray
    /\ feedRun = NoRun
    /\ crashed = FALSE
    /\ pc = [t \in Threads |-> "idle"]
    /\ call = [t \in Threads |-> NoCall]
    /\ buf = [t \in Threads |-> <<>>]
    /\ raceLog = [calls |-> 0, uaf |-> FALSE, half |-> FALSE, owed |-> NoOwed]
    /\ codec = NoCodec

vtNew(cols, rows) ==
    /\ ~crashed
    /\ Cardinality({a \in Addrs : heap[a].live}) < MaxLive
    /\ \E a \in Addrs :
         /\ ~heap[a].live
         /\ heap' = [heap EXCEPT ![a] = [live |-> TRUE, st |-> new(cols, rows), stable |-> TRUE,
                                           seen |-> <<0, 0>>]]
         /\ issued' = issued \cup {a}
         /\ lastOp' = Op("open", a, TRUE, "none", TRUE, rows, 0, 0, "", 0)
    /\ ret' = NullArray
    /\ feedRun' = NoRun
    /\ UNCHANGED <<resizable, closed, crashed>>
    /\ UNCHANGED raceVars

vtFree(h) ==
    /\ ~crashed
    /\ IF IsNullHandle(h)
       THEN /\ lastOp' = Op("close", h, FALSE, "none", TRUE, 0, 0, 0, "", 0)
            /\ UNCHANGED <<heap, closed, crashed>>
       ELSE IF Live(h)
       THEN /\ heap' = [heap EXCEPT ![h] = FreeCell]
            /\ closed' = closed \cup {h}
            /\ lastOp' = Op("close", h, TRUE, "none", TRUE, 0, 0, 0, "", 0)
            /\ UNCHANGED crashed
       ELSE /\ lastOp' = Op("close", h, FALSE, "double_free", TRUE, 0, 0, 0, "", 0)
            /\ crashed' \in BOOLEAN
            /\ UNCHANGED <<heap, closed>>
    /\ ret' = NullArray
    /\ feedRun' = NoRun
    /\ UNCHANGED <<resizable, issued>>
    /\ UNCHANGED raceVars

vtReset(h, cols, rows) ==
    /\ ~crashed
    /\ IF IsNullHandle(h)
       THEN /\ lastOp' = Op("reset", h, FALSE, "none", TRUE, rows, 0, 0, "", 0)
            /\ UNCHANGED <<heap, crashed>>
       ELSE IF Live(h)
       THEN /\ heap' = [heap EXCEPT ![h].st = reset(heap[h].st, cols, rows),
                                    ![h].stable = TRUE]
            /\ lastOp' = Op("reset", h, TRUE, "none", TRUE, rows, 0, 0, "", 0)
            /\ UNCHANGED crashed
       ELSE /\ lastOp' = Op("reset", h, FALSE, "use_after_free", TRUE, rows, 0, 0, "", 0)
            /\ crashed' \in BOOLEAN
            /\ UNCHANGED heap
    /\ ret' = NullArray
    /\ feedRun' = NoRun
    /\ UNCHANGED <<resizable, issued, closed>>
    /\ UNCHANGED raceVars

vtResize(h, cols, rows) ==
    /\ ~crashed
    /\ IF IsNullHandle(h)
       THEN /\ lastOp' = Op("resize", h, FALSE, "none", TRUE, rows, 0, 0, "", 0)
            /\ UNCHANGED <<heap, crashed>>
       ELSE IF Live(h)
       THEN LET st == heap[h].st
                next == resize(st, cols, rows, resizable)
                stable == /\ heap[h].stable
                          /\ VtSize(st.vt) = <<cols, rows>>
                          /\ VtSize(next.vt) = <<cols, rows>>
            IN /\ heap' = [heap EXCEPT ![h].st = next, ![h].stable = stable]
               /\ lastOp' = Op("resize", h, TRUE, "none", TRUE, rows, 0, 0, "", 0)
               /\ UNCHANGED crashed
       ELSE /\ lastOp' = Op("resize", h, FALSE, "use_after_free", TRUE, rows, 0, 0, "", 0)
            /\ crashed' \in BOOLEAN
            /\ UNCHANGED heap
    /\ ret' = NullArray
    /\ feedRun' = NoRun
    /\ UNCHANGED <<resizable, issued, closed>>
    /\ UNCHANGED raceVars

\* isNull: convert_byte_array fails (null array) and the handler returns.
vtFeed(h, isNull, bytes) ==
    /\ ~crashed
    /\ IF IsNullHandle(h) \/ isNull
       THEN /\ lastOp' = Op("feed", h, Live(h), "none", ~isNull, 0, 0, 0, "", 0)
            /\ feedRun' = NoRun
            /\ UNCHANGED <<heap, crashed>>
       ELSE IF Live(h)
       THEN LET st == heap[h].st
                next == feed(st, bytes, resizable)
                stable == heap[h].stable /\ VtSize(next.vt) = VtSize(st.vt)
            IN /\ heap' = [heap EXCEPT ![h].st = next, ![h].stable = stable]
               /\ lastOp' = Op("feed", h, TRUE, "none", TRUE, 0,
                               Cardinality(FeedMarks(st)), Len(bytes), "", 0)
               /\ feedRun' =
                    IF ~stable THEN NoRun
                    ELSE IF lastOp.op = "feed" /\ feedRun.k >= 1 /\ feedRun.h = h
                    THEN [feedRun EXCEPT !.k = Min(feedRun.k + 1, 2)]
                    ELSE [k |-> 1, h |-> h, diff |-> poll_diff(next).bytes]
               /\ UNCHANGED crashed
       ELSE /\ lastOp' = Op("feed", h, FALSE, "use_after_free", TRUE, 0, 0, Len(bytes), "", 0)
            /\ feedRun' = NoRun
            /\ crashed' \in BOOLEAN
            /\ UNCHANGED heap
    /\ ret' = NullArray
    /\ UNCHANGED <<resizable, issued, closed>>
    /\ UNCHANGED raceVars

\* ok: byte_array_from_slice could allocate the Java array.
vtSnapshot(h, ok) ==
    /\ ~crashed
    /\ IF IsNullHandle(h)
       THEN /\ lastOp' = Op("snapshot", h, FALSE, "none", TRUE, 0, 0, 0, "", 0)
            /\ ret' = NullArray
            /\ UNCHANGED crashed
       ELSE IF Live(h)
       THEN /\ lastOp' = Op("snapshot", h, TRUE, "none", ok, 0, 0, 0, "", 0)
            /\ ret' = IF ok THEN encode_snapshot(heap[h].st) ELSE NullArray
            /\ UNCHANGED crashed
       ELSE /\ lastOp' = Op("snapshot", h, FALSE, "use_after_free", ok, 0, 0, 0, "", 0)
            /\ ret' \in {NullArray, Indeterminate}
            /\ crashed' \in BOOLEAN
    /\ feedRun' = NoRun
    /\ UNCHANGED <<heap, resizable, issued, closed>>
    /\ UNCHANGED raceVars

\* The call that came right before a poll on the same live session.
Before(h) ==
    IF /\ lastOp.h = h /\ lastOp.live /\ lastOp.ub = "none"
       /\ lastOp.op \in {"open", "reset", "resize", "feed", "poll"}
       /\ (lastOp.op = "feed" => lastOp.ok)
    THEN lastOp
    ELSE Op("other", h, FALSE, "none", TRUE, 0, 0, 0, "", 0)

vtPollDiff(h, ok) ==
    /\ ~crashed
    /\ IF IsNullHandle(h)
       THEN /\ lastOp' = Op("poll", h, FALSE, "none", TRUE, 0, 0, 0, "", 0)
            /\ ret' = NullArray
            /\ UNCHANGED <<heap, crashed>>
       ELSE IF Live(h)
       THEN LET r == poll_diff(heap[h].st)
                b == Before(h)
            IN /\ heap' = [heap EXCEPT ![h].st = r.st, ![h].seen = VtSize(r.st.vt)]
               /\ lastOp' = Op("poll", h, TRUE, "none", ok \/ ~r.some, b.rows, b.vis, b.len,
                               b.op, IF feedRun.h = h THEN feedRun.k ELSE 0)
               /\ ret' = IF r.some /\ ok THEN r.bytes ELSE NullArray
               /\ UNCHANGED crashed
       ELSE /\ lastOp' = Op("poll", h, FALSE, "use_after_free", ok, 0, 0, 0, "", 0)
            /\ ret' \in {NullArray, Indeterminate}
            /\ crashed' \in BOOLEAN
            /\ UNCHANGED heap
    /\ feedRun' = NoRun
    /\ UNCHANGED <<resizable, issued, closed>>
    /\ UNCHANGED raceVars

Next ==
    \/ \E c \in ColArgs, r \in RowArgs : vtNew(c, r)
    \/ \E h \in CallHandles : vtFree(h)
    \/ \E h \in CallHandles, c \in ColArgs, r \in RowArgs : vtReset(h, c, r)
    \/ \E h \in CallHandles, c \in ColArgs, r \in RowArgs : vtResize(h, c, r)
    \/ \E h \in CallHandles : vtFeed(h, TRUE, <<>>)
    \/ \E h \in CallHandles, b \in FeedInputs : vtFeed(h, FALSE, b)
    \/ \E h \in CallHandles, ok \in BOOLEAN : vtSnapshot(h, ok)
    \/ \E h \in CallHandles, ok \in BOOLEAN : vtPollDiff(h, ok)

Spec == Init /\ [][Next]_vars

----------------------------------------------------------------------------
(* Two JVM threads on one session.  The handlers take no lock, so a call   *)
(* runs statement by statement between the other thread's statements.  A   *)
(* thread only starts a call on a handle that is live when it starts.      *)

Tracker(st) == [rows |-> st.dirty_lines, cc |-> st.cursor_changed, rz |-> st.resized]

InitRace ==
    \E c \in ColArgs, r \in RowArgs, polled \in BOOLEAN :
        LET st0 == IF polled THEN poll_diff(new(c, r)).st ELSE new(c, r)
        IN /\ heap = [a \in Addrs |->
                        IF a = 1 THEN [live |-> TRUE, st |-> st0, stable |-> TRUE, seen |-> IF polled THEN <<c, r>> ELSE <<0, 0>>]
                        ELSE FreeCell]
           /\ resizable \in BOOLEAN
           /\ issued = {1}
           /\ closed = {}
           /\ lastOp = IF polled
                       THEN Op("poll", 1, TRUE, "none", TRUE, r, 0, 0, "open", 0)
                       ELSE Op("open", 1, TRUE, "none", TRUE, r, 0, 0, "", 0)
           /\ ret = IF polled THEN poll_diff(new(c, r)).bytes ELSE NullArray
           /\ feedRun = NoRun
           /\ crashed = FALSE
           /\ pc = [t \in Threads |-> "idle"]
           /\ call = [t \in Threads |-> NoCall]
           /\ buf = [t \in Threads |-> <<>>]
           /\ raceLog = [calls |-> 0, uaf |-> FALSE, half |-> FALSE, owed |-> Tracker(st0)]
           /\ codec = NoCodec

FirstPc(op) ==
    CASE op = "feed" -> "mark"
      [] op \in {"reset", "resize"} -> "vt"
      [] op = "poll" -> "check"
      [] op = "snapshot" -> "snap"
      [] OTHER -> "drop"

\* The handler's entry: the handle is not 0, nothing is dereferenced yet.
rCall(t, op, cols, rows, bytes) ==
    /\ pc[t] = "idle"
    /\ raceLog.calls < MaxCalls
    /\ \E h \in Addrs :
         /\ Live(h)
         /\ op = "close" => \A u \in Threads : ~(call[u].op = "close" /\ call[u].h = h)
         /\ call' = [call EXCEPT ![t] =
                        [op |-> op, h |-> h, cols |-> cols, rows |-> rows, bytes |-> bytes]]
    /\ pc' = [pc EXCEPT ![t] = FirstPc(op)]
    /\ raceLog' = [raceLog EXCEPT !.calls = raceLog.calls + 1]
    /\ UNCHANGED <<heap, resizable, issued, closed, lastOp, ret, feedRun, crashed, buf, codec>>

\* Another thread's poll_diff on h has cleared some of the tracker, not all.
HalfCleared(t, h) ==
    \E u \in Threads \ {t} : call[u].h = h /\ pc[u] \in {"clr_cursor", "clr_resized"}

\* One statement of a call in flight: `upd` is the session after it, `owe`
\* what it adds to the unreported marks.  The reference was made from the
\* raw handle; if the box is gone the statement runs on freed memory.
Statement(t, at, to, upd, owe, mutates) ==
    /\ pc[t] = at
    /\ pc' = [pc EXCEPT ![t] = to]
    /\ IF Live(call[t].h)
       THEN /\ heap' = [heap EXCEPT ![call[t].h].st = upd]
            /\ raceLog' = [raceLog EXCEPT !.owed = owe,
                              !.half = raceLog.half \/ (mutates /\ HalfCleared(t, call[t].h))]
       ELSE /\ heap' = heap
            /\ raceLog' = [raceLog EXCEPT !.uaf = TRUE]
    /\ UNCHANGED <<resizable, issued, closed, lastOp, feedRun, crashed, codec>>

Target(t) == heap[call[t].h].st

rVt(t) ==
    LET c == call[t]
        ok == Live(c.h)
        upd == IF ~ok THEN <<>>
               ELSE [Target(t) EXCEPT !.vt =
                        CASE c.op = "feed" -> VtFeedBytes(Target(t).vt, c.bytes, resizable)
                          [] c.op = "resize" ->
                                VtFeedBytes(Target(t).vt, ResizeSeq(c.rows, c.cols), resizable)
                          [] OTHER -> VtBuild(c.cols, c.rows)]
    IN /\ Statement(t, "vt", IF c.op = "feed" THEN "cursor" ELSE "mark", upd, raceLog.owed, TRUE)
       /\ UNCHANGED <<ret, buf, call>>

rMark(t) ==
    LET c == call[t]
        ok == Live(c.h)
        marks == IF ~ok THEN {}
                 ELSE IF c.op = "feed" THEN Target(t).dirty_lines \cup FeedMarks(Target(t))
                 ELSE 0..(c.rows - 1)
        upd == IF ~ok THEN <<>> ELSE [Target(t) EXCEPT !.dirty_lines = marks]
        owe == [raceLog.owed EXCEPT !.rows =
                    IF c.op = "feed" THEN raceLog.owed.rows \cup marks ELSE marks]
    IN /\ Statement(t, "mark", IF c.op = "feed" THEN "vt" ELSE "cursor", upd, owe, TRUE)
       /\ UNCHANGED <<ret, buf, call>>

rCursor(t) ==
    LET c == call[t]
        upd == IF ~Live(c.h) THEN <<>> ELSE [Target(t) EXCEPT !.cursor_changed = TRUE]
    IN /\ Statement(t, "cursor", IF c.op = "feed" THEN "idle" ELSE "resized", upd,
                    [raceLog.owed EXCEPT !.cc = TRUE], TRUE)
       /\ call' = IF c.op = "feed" THEN [call EXCEPT ![t] = NoCall] ELSE call
       /\ UNCHANGED <<ret, buf>>

rResized(t) ==
    LET upd == IF ~Live(call[t].h) THEN <<>> ELSE [Target(t) EXCEPT !.resized = TRUE]
    IN /\ Statement(t, "resized", "idle", upd, [raceLog.owed EXCEPT !.rz = TRUE], TRUE)
       /\ call' = [call EXCEPT ![t] = NoCall]
       /\ UNCHANGED <<ret, buf>>

\* poll_diff up to the point where the buffer is built.
rCheck(t) ==
    LET ok == Live(call[t].h)
        none == ok /\ Clean(Target(t))
    IN /\ Statement(t, "check", IF ok /\ ~none THEN "clr_dirty" ELSE "idle",
                    IF ok THEN Target(t) ELSE <<>>, raceLog.owed, FALSE)
       /\ buf' = [buf EXCEPT ![t] = IF ok /\ ~none THEN DiffBytes(Target(t)) ELSE <<>>]
       /\ ret' = IF ok /\ ~none THEN ret ELSE IF ok THEN NullArray ELSE Indeterminate
       /\ call' = IF ok /\ ~none THEN call ELSE [call EXCEPT ![t] = NoCall]

rClearDirty(t) ==
    LET upd == IF ~Live(call[t].h) THEN <<>> ELSE [Target(t) EXCEPT !.dirty_lines = {}]
    IN /\ Statement(t, "clr_dirty", "clr_cursor", upd, raceLog.owed, FALSE)
       /\ UNCHANGED <<ret, buf, call>>

rClearCursor(t) ==
    LET upd == IF ~Live(call[t].h) THEN <<>> ELSE [Target(t) EXCEPT !.cursor_changed = FALSE]
    IN /\ Statement(t, "clr_cursor", "clr_resized", upd, raceLog.owed, FALSE)
       /\ UNCHANGED <<ret, buf, call>>

rClearResized(t) ==
    LET upd == IF ~Live(call[t].h) THEN <<>> ELSE [Target(t) EXCEPT !.resized = FALSE]
    IN /\ Statement(t, "clr_resized", "ret", upd, raceLog.owed, FALSE)
       /\ UNCHANGED <<ret, buf, call>>

\* The buffer goes to the caller; what it lists is no longer owed.
rReturn(t) ==
    /\ pc[t] = "ret"
    /\ pc' = [pc EXCEPT ![t] = "idle"]
    /\ ret' = buf[t]
    /\ buf' = [buf EXCEPT ![t] = <<>>]
    /\ call' = [call EXCEPT ![t] = NoCall]
    /\ raceLog' = [raceLog EXCEPT !.owed =
                      LET b == buf[t]
                          n == Len(b)
                          listed == {b[i] : i \in 3..(n - 2)}
                      IN [rows |-> raceLog.owed.rows \ listed,
                          cc |-> raceLog.owed.cc /\ b[n - 1] = 0,
                          rz |-> raceLog.owed.rz /\ b[n] = 0]]
    /\ UNCHANGED <<heap, resizable, issued, closed, lastOp, feedRun, crashed, codec>>

rSnap(t) ==
    LET ok == Live(call[t].h)
    IN /\ Statement(t, "snap", "idle", IF ok THEN Target(t) ELSE <<>>, raceLog.owed, FALSE)
       /\ ret' = IF ok THEN encode_snapshot(Target(t)) ELSE Indeterminate
       /\ call' = [call EXCEPT ![t] = NoCall]
       /\ UNCHANGED buf

\* Box::from_raw and the drop of the box.
rDrop(t) ==
    /\ pc[t] = "drop"
    /\ pc' = [pc EXCEPT ![t] = "idle"]
    /\ heap' = [heap EXCEPT ![call[t].h] = FreeCell]
    /\ closed' = closed \cup {call[t].h}
    /\ call' = [call EXCEPT ![t] = NoCall]
    /\ UNCHANGED <<resizable, issued, lastOp, ret, feedRun, crashed, buf, raceLog, codec>>

NextRace ==
    \/ \E t \in Threads : rCall(t, "close", 0, 0, <<>>)
    \/ \E t \in Threads : rCall(t, "poll", 0, 0, <<>>)
    \/ \E t \in Threads : rCall(t, "snapshot", 0, 0, <<>>)
    \/ \E t \in Threads, b \in FeedInputs : rCall(t, "feed", 0, 0, b)
    \/ \E t \in Threads, c \in ColArgs, r \in RowArgs : rCall(t, "reset", c, r, <<>>)
    \/ \E t \in Threads, c \in ColArgs, r \in RowArgs : rCall(t, "resize", c, r, <<>>)
    \/ \E t \in Threads : rVt(t)
    \/ \E t \in Threads : rMark(t)
    \/ \E t \in Threads : rCursor(t)
    \/ \E t \in Threads : rResized(t)
    \/ \E t \in Threads : rCheck(t)
    \/ \E t \in Threads : rClearDirty(t)
    \/ \E t \in Threads : rClearCursor(t)
    \/ \E t \in Threads : rClearResized(t)
    \/ \E t \in Threads : rReturn(t)
    \/ \E t \in Threads : rSnap(t)
    \/ \E t \in Threads : rDrop(t)

SpecRace == InitRace /\ [][NextRace]_vars

----------------------------------------------------------------------------
(* The encoders on their own: one input is drawn and its encoder applied. *)

\* Cells of a drawn row, columns and rows of a drawn screen, and the range of
\* small integers given to write_varint.
MaxLen == 3
MaxGrid == 2
MaxSmall == 300

StyledPen ==
    [DefaultPen EXCEPT !.fg = [tag |-> "Indexed", idx |-> 9], !.bold = TRUE]

RgbPen ==
    [DefaultPen EXCEPT !.bg = [tag |-> "RGB", r |-> 200, g |-> 100, b |-> 50],
                       !.inverse = TRUE, !.underline = TRUE]

FaintPen == [DefaultPen EXCEPT !.faint = TRUE]

Pens == {DefaultPen, StyledPen, RgbPen, FaintPen}

\* 'a' and U+00E9, one and two bytes of UTF-8.
Chars == {97, 233}

Cells == [ch : Chars, pen : Pens]

RowInputs == UNION {[1..n -> Cells] : n \in 0..MaxLen}

\* usize values: the small ones, those around each 7-bit boundary, and the
\* largest the checker's integers hold.
VarintInputs ==
    (0..MaxSmall) \cup {128^k - 1 : k \in 1..4} \cup {128^k : k \in 1..4}
                  \cup {2147483647}

GridCells == {BlankCell, [ch |-> 233, pen |-> StyledPen]}

VtInputs ==
    UNION {UNION {{[VtBuild(c, r) EXCEPT
                       !.lines = l,
                       !.cursor = [col |-> x, row |-> y, visible |-> v]] :
                     l \in [1..r -> [1..c -> GridCells]],
                     x \in 0..(c - 1), y \in 0..(r - 1), v \in BOOLEAN} :
                  r \in 1..MaxGrid} :
           c \in 1..MaxGrid}

SessionOf(vt) == [new(vt.cols, vt.rows) EXCEPT !.vt = vt]

CodecInput(kind, input) ==
    [kind |-> kind, done |-> FALSE, input |-> input, out |-> <<>>]

sessionVars ==
    <<heap, resizable, issued, closed, lastOp, ret, feedRun, crashed,
      pc, call, buf, raceLog>>

InitCodec ==
    /\ heap = [a \in Addrs |-> FreeCell]
    /\ resizable = FALSE
    /\ issued = {}
    /\ closed = {}
    /\ lastOp = Op("init", 0, FALSE, "none", TRUE, 0, 0, 0, "", 0)
    /\ ret = NullArray
    /\ feedRun = NoRun
    /\ crashed = FALSE
    /\ pc = [t \in Threads |-> "idle"]
    /\ call = [t \in Threads |-> NoCall]
    /\ buf = [t \in Threads |-> <<>>]
    /\ raceLog = [calls |-> 0, uaf |-> FALSE, half |-> FALSE, owed |-> NoOwed]
    /\ codec \in {CodecInput("varint", n) : n \in VarintInputs}
                 \cup {CodecInput("line", cells) : cells \in RowInputs}
                 \cup {CodecInput("snapshot", SessionOf(vt)) : vt \in VtInputs}

EncodeVarint ==
    /\ codec.kind = "varint" /\ ~codec.done
    /\ codec' = [codec EXCEPT !.done = TRUE,
                              !.out = write_varint(<<>>, codec.input)]
    /\ UNCHANGED sessionVars

EncodeLine ==
    /\ codec.kind = "line" /\ ~codec.done
    /\ codec' = [codec EXCEPT !.done = TRUE,
                              !.out = encode_line(<<>>, codec.input)]
    /\ UNCHANGED sessionVars

EncodeSnapshot ==
    /\ codec.kind = "snapshot" /\ ~codec.done
    /\ codec' = [codec EXCEPT !.done = TRUE,
                              !.out = encode_snapshot(codec.input)]
    /\ UNCHANGED sessionVars

NextCodec ==
    \/ EncodeVarint
    \/ EncodeLine
    \/ EncodeSnapshot

SpecCodec == InitCodec /\ [][NextCodec]_vars

----------------------------------------------------------------------------
(* Reading a diff back, as a consumer of the wire format does. *)

\* The varint that starts at bytes[pos]: its value and the position after it.
RECURSIVE ReadVarint(_, _, _, _)
ReadVarint(bytes, pos, shift, acc) ==
    IF pos > Len(bytes) THEN [val |-> -1, next |-> pos]
    ELSE IF bytes[pos] >= 128
    THEN ReadVarint(bytes, pos + 1, shift * 128, acc + (bytes[pos] - 128) * shift)
    ELSE [val |-> acc + bytes[pos] * shift, next |-> pos + 1]

RECURSIVE ReadVarints(_, _, _, _)
ReadVarints(bytes, pos, n, out) ==
    IF n <= 0 THEN [vals |-> out, next |-> pos]
    ELSE LET v == ReadVarint(bytes, pos, 1, 0)
         IN ReadVarints(bytes, v.next, n - 1, Append(out, v.val))

NoDiff == [has |-> 0, rows |-> <<>>, cc |-> 0, rz |-> 0, whole |-> FALSE]

DecodeDiff(bytes) ==
    IF bytes = NullArray \/ bytes[1] # 1 THEN NoDiff
    ELSE LET n == ReadVarint(bytes, 2, 1, 0)
             idx == ReadVarints(bytes, n.next, n.val, <<>>)
         IN IF Len(bytes) # idx.next + 1 THEN NoDiff
            ELSE [has |-> 1, rows |-> idx.vals,
                  cc |-> bytes[idx.next], rz |-> bytes[idx.next + 1], whole |-> TRUE]

RowSet(d) == {d.rows[i] : i \in 1..Len(d.rows)}

\* The last call was a poll on a live session that followed `name` directly
\* on the same handle, and its diff buffer reached the caller.
PolledAfter(name) ==
    /\ lastOp.op = "poll" /\ lastOp.live /\ lastOp.ok
    /\ lastOp.after = name

\* The step is a poll_diff on the session that is live at h.
PollStep(h) ==
    /\ Live(h)
    /\ lastOp'.op = "poll" /\ lastOp'.h = h /\ lastOp'.live

----------------------------------------------------------------------------
(* Claims *)

\* C1: the first poll_diff after open(c, r), with nothing in between, returns
\* a diff with hasDiff=1, dirty rows exactly 0..r-1, cursorChanged=1 and
\* resized=0 (when the diff buffer reaches the caller).
C1_FirstPollAfterOpen ==
    PolledAfter("open") =>
        LET d == DecodeDiff(ret)
        IN /\ d.has = 1
           /\ Len(d.rows) = lastOp.rows
           /\ RowSet(d) = 0..(lastOp.rows - 1)
           /\ d.cc = 1
           /\ d.rz = 0

C1_Witness ==
    /\ PolledAfter("open")
    /\ lastOp.rows = MaxRows
    /\ Len(DecodeDiff(ret).rows) = MaxRows

\* C2: every poll_diff on a live session leaves the tracker with no dirty row
\* and both flags false; it returns absent exactly when the tracker was in
\* that state before the call; so a poll_diff right after a poll_diff returns
\* absent.
C2_PollClearsAndSecondAbsent ==
    [][\A h \in Addrs : PollStep(h) =>
          /\ Clean(heap'[h].st)
          /\ lastOp'.ok => (ret' = NullArray <=> Clean(heap[h].st))
          /\ (lastOp.op = "poll" /\ lastOp.h = h) => ret' = NullArray]_vars

C2_Witness ==
    /\ lastOp.op = "poll" /\ lastOp.live /\ lastOp.after = "poll"
    /\ ret = NullArray
    /\ Clean(heap[lastOp.h].st)

\* C3: the poll_diff that follows a feed of non-empty bytes on a live session
\* returns a diff with cursorChanged=1 whose dirty rows include every row
\* below min(line count, row count) as the engine reported them before the
\* feed.
C3_FeedThenPoll ==
    (PolledAfter("feed") /\ lastOp.len > 0) =>
        LET d == DecodeDiff(ret)
        IN /\ d.has = 1
           /\ d.cc = 1
           /\ 0..(lastOp.vis - 1) \subseteq RowSet(d)

C3_Witness ==
    /\ PolledAfter("feed") /\ lastOp.len > 0
    /\ lastOp.vis = MaxRows
    /\ heap[lastOp.h].st.vt.rows < lastOp.vis
    /\ RowSet(DecodeDiff(ret)) = 0..(lastOp.vis - 1)

\* C4: after k >= 1 consecutive feeds that leave the geometry as it has been
\* since the session was opened or reset, poll_diff returns the diff it would
\* have returned after the first of them, with no row listed twice and no
\* more rows than are visible, and it leaves nothing pending.
C4_FeedsCoalesce ==
    [][\A h \in Addrs : (PollStep(h) /\ feedRun.k >= 1 /\ feedRun.h = h) =>
          /\ Clean(heap'[h].st)
          /\ lastOp'.ok =>
                LET d == DecodeDiff(ret')
                IN /\ ret' = feedRun.diff
                   /\ d.has = 1
                   /\ Cardinality(RowSet(d)) = Len(d.rows)
                   /\ Len(d.rows) <= heap[h].st.vt.rows]_vars

C4_Witness ==
    /\ PolledAfter("feed")
    /\ lastOp.k = 2
    /\ Len(DecodeDiff(ret).rows) = MaxRows

\* C5: after close(h), every later call on h is a no-op: it changes no
\* session, touches no destroyed session, and returns an empty array.
C5_ClosedHandleNoOp ==
    [][\A h \in closed : (lastOp'.op # "open" /\ lastOp'.h = h) =>
          /\ heap' = heap
          /\ ret' = NullArray
          /\ lastOp'.ub = "none"
          /\ ~crashed']_vars

\* C6: open never returns handle 0, and every call on handle 0 changes no
\* session and returns an empty array.
C6_NullHandleNoOp ==
    [][/\ lastOp'.op = "open" => lastOp'.h # 0
       /\ (lastOp'.op # "open" /\ lastOp'.h = 0) =>
             /\ heap' = heap
             /\ ret' = NullArray
             /\ lastOp'.ub = "none"
             /\ ~crashed']_vars

C6_Witness ==
    /\ lastOp.op = "poll" /\ lastOp.h = 0
    /\ ret = NullArray
    /\ \E a \in Addrs : Live(a) /\ ~Clean(heap[a].st)

\* C7: the handle an open returns differs from every handle an earlier open
\* returned.
C7_HandleNeverReused ==
    [][lastOp'.op = "open" => lastOp'.h \notin issued]_vars

\* C10: the poll_diff that follows reset(h, c, r) or resize(h, c, r) returns
\* a diff with resized=1, cursorChanged=1 and dirty rows exactly 0..r-1.
C10_ResizeThenPoll ==
    (PolledAfter("reset") \/ PolledAfter("resize")) =>
        LET d == DecodeDiff(ret)
        IN /\ d.has = 1
           /\ d.rz = 1
           /\ d.cc = 1
           /\ Len(d.rows) = lastOp.rows
           /\ RowSet(d) = 0..(lastOp.rows - 1)

C10_Witness ==
    /\ PolledAfter("resize")
    /\ lastOp.rows = 1
    /\ heap[lastOp.h].st.vt.rows = 1
    /\ RowSet(DecodeDiff(ret)) = {0}

\* C8: while one thread closes h and another is in feed, snapshot or
\* poll_diff on h, no statement of the racing call runs on a session that has
\* been destroyed.
C8_RaceNeverTouchesDestroyed ==
    ~raceLog.uaf

\* C9: no mutation runs on a tracker that a poll_diff has cleared in part,
\* and once every call has returned each mark that no returned diff listed
\* is still in the tracker.
C9_PollAtomic ==
    /\ ~raceLog.half
    /\ \A h \in Addrs : (Live(h) /\ \A t \in Threads : pc[t] = "idle") =>
          /\ raceLog.owed.rows \subseteq heap[h].st.dirty_lines
          /\ raceLog.owed.cc => heap[h].st.cursor_changed
          /\ raceLog.owed.rz => heap[h].st.resized

\* C11 as stated: after reset(h, c, r) the tracker, and so the diff of the
\* next poll_diff, is that of a session just made by open(c, r).
AfterReset == lastOp.op = "reset" /\ lastOp.live

Fresh == new(heap[lastOp.h].st.vt.cols, lastOp.rows)

C11_ResetAsFreshlyOpened ==
    AfterReset =>
        /\ Tracker(heap[lastOp.h].st) = Tracker(Fresh)
        /\ poll_diff(heap[lastOp.h].st).bytes = poll_diff(Fresh).bytes

\* C11 amended: after reset(h, c, r) the engine, the dirty rows and
\* cursor_changed are those of a session just made by open(c, r), and resized
\* is true (open leaves it false).
C11_ResetAsOpenedButResized ==
    AfterReset =>
        LET st == heap[lastOp.h].st
        IN /\ st.vt = Fresh.vt
           /\ st.dirty_lines = Fresh.dirty_lines
           /\ st.cursor_changed = Fresh.cursor_changed
           /\ st.resized /\ ~Fresh.resized
           /\ poll_diff(st).bytes = poll_diff([Fresh EXCEPT !.resized = TRUE]).bytes

C11_Witness ==
    /\ AfterReset
    /\ lastOp.rows = 1
    /\ heap[lastOp.h].st.dirty_lines = {0}
    /\ heap[lastOp.h].st.resized

\* C12: a poll_diff whose buffer cannot be handed to the caller leaves the
\* pending dirty rows and flags in the tracker.
C12_FailedPollKeepsPending ==
    [][\A h \in Addrs : (PollStep(h) /\ ~lastOp'.ok) =>
          Tracker(heap'[h].st) = Tracker(heap[h].st)]_vars

\* C13: snapshot on a live session changes neither tracker nor engine, and
\* what it returns is what it would return with any other tracker state.
EngineOnly(st) ==
    [vt |-> st.vt, dirty_lines |-> {}, cursor_changed |-> FALSE, resized |-> FALSE]

C13_SnapshotIndependent ==
    [][\A h \in Addrs : (Live(h) /\ lastOp'.op = "snapshot" /\ lastOp'.h = h) =>
          /\ heap' = heap
          /\ lastOp'.ok => ret' = encode_snapshot(EngineOnly(heap[h].st))]_vars

C13_Witness ==
    /\ lastOp.op = "snapshot" /\ lastOp.live /\ lastOp.ok
    /\ ret # NullArray
    /\ heap[lastOp.h].st.dirty_lines # {}
    /\ Cardinality(heap[lastOp.h].st.dirty_lines) # heap[lastOp.h].st.vt.rows

\* C14: a diff is the byte 1, the number of dirty rows, the dirty rows of the
\* tracker in strictly ascending order, then the cursor_changed and resized
\* flags of the tracker as bytes 0 or 1, and nothing else.
Ascending(seq) == \A i \in 1..(Len(seq) - 1) : seq[i] < seq[i + 1]

Bit(flag) == IF flag THEN 1 ELSE 0

C14_DiffLayout ==
    [][\A h \in Addrs : (PollStep(h) /\ lastOp'.ok /\ ~Clean(heap[h].st)) =>
          LET d == DecodeDiff(ret')
              st == heap[h].st
          IN /\ d.whole
             /\ d.has = 1
             /\ Len(d.rows) = Cardinality(st.dirty_lines)
             /\ Ascending(d.rows)
             /\ RowSet(d) = st.dirty_lines
             /\ d.cc = Bit(st.cursor_changed)
             /\ d.rz = Bit(st.resized)]_vars

C14_Witness ==
    /\ lastOp.op = "poll" /\ lastOp.live /\ lastOp.ok
    /\ DecodeDiff(ret).rows = <<0, 1>>
    /\ DecodeDiff(ret).rz = 1

\* C19: every dirty row of a live session is below the row count its engine
\* reports.
C19_DirtyRowsWithinEngine ==
    \A h \in Addrs : Live(h) =>
        heap[h].st.dirty_lines \subseteq 0..(heap[h].st.vt.rows - 1)

\* C20: when the engine's size differs from the size it had at the previous
\* poll_diff, poll_diff returns a diff with resized=1 that lists every row of
\* the new geometry.
C20_GeometryChangeReported ==
    [][\A h \in Addrs :
          (/\ PollStep(h) /\ lastOp'.ok
           /\ heap[h].seen # <<0, 0>>
           /\ VtSize(heap[h].st.vt) # heap[h].seen) =>
             LET d == DecodeDiff(ret')
             IN /\ d.has = 1
                /\ d.rz = 1
                /\ 0..(heap[h].st.vt.rows - 1) \subseteq RowSet(d)]_vars

----------------------------------------------------------------------------
(* The encoders' output read back, as a consumer of the wire format does. *)

VarintDone == codec.kind = "varint" /\ codec.done

\* C18: for every n given to write_varint the output is little-endian
\* base 128 (byte i holds bits 7(i-1)..7i-1 of n), every byte but the last
\* has its high bit set and the last has it clear, the decoder returns n and
\* stops at the end of the output, and the length is minimal: a last byte of
\* 0 occurs only for n = 0, which is the single byte 0.
C18_VarintRoundTripMinimal ==
    VarintDone =>
        LET out == codec.out
            n == codec.input
            len == Len(codec.out)
        IN /\ len >= 1 /\ len <= 5
           /\ \A i \in 1..len : out[i] \in 0..255
           /\ \A i \in 1..(len - 1) : out[i] >= 128
           /\ out[len] < 128
           /\ \A i \in 1..len : out[i] % 128 = (n \div 128^(i - 1)) % 128
           /\ ReadVarint(out, 1, 1, 0) = [val |-> n, next |-> len + 1]
           /\ (out[len] = 0 => n = 0)
           /\ (n = 0 => out = <<0>>)

\* The largest input was encoded in five bytes.
C18_Witness ==
    VarintDone /\ codec.input = 2147483647 /\ Len(codec.out) = 5

\* A Pen as the wire format carries it: two colours and six attribute bits.
WirePen(pen) ==
    [fg |-> pen.fg, bg |-> pen.bg,
     bold |-> pen.bold, italic |-> pen.italic, underline |-> pen.underline,
     strikethrough |-> pen.strikethrough, blink |-> pen.blink,
     inverse |-> pen.inverse]

NoColor == [ok |-> FALSE, color |-> [tag |-> "None"], next |-> 0]

\* The colour that starts at bytes[pos].
ReadColor(bytes, pos) ==
    IF pos < 1 \/ pos > Len(bytes) THEN NoColor
    ELSE CASE bytes[pos] = 0 /\ pos + 1 <= Len(bytes) ->
                [ok |-> TRUE, next |-> pos + 2,
                 color |-> [tag |-> "Indexed", idx |-> bytes[pos + 1]]]
           [] bytes[pos] = 1 /\ pos + 3 <= Len(bytes) ->
                [ok |-> TRUE, next |-> pos + 4,
                 color |-> [tag |-> "RGB", r |-> bytes[pos + 1],
                            g |-> bytes[pos + 2], b |-> bytes[pos + 3]]]
           [] bytes[pos] = 2 ->
                [ok |-> TRUE, next |-> pos + 1, color |-> [tag |-> "None"]]
           [] OTHER -> NoColor

HasBit(attrs, weight) == (attrs \div weight) % 2 = 1

\* The pen that starts at bytes[pos].
ReadPen(bytes, pos) ==
    LET fg == ReadColor(bytes, pos)
        bg == ReadColor(bytes, fg.next)
    IN IF ~fg.ok \/ ~bg.ok \/ bg.next > Len(bytes) \/ bytes[bg.next] >= 64
       THEN [ok |-> FALSE, pen |-> WirePen(DefaultPen), next |-> 0]
       ELSE LET attrs == bytes[bg.next]
            IN [ok |-> TRUE, next |-> bg.next + 1,
                pen |-> [fg |-> fg.color, bg |-> bg.color,
                         bold |-> HasBit(attrs, 1), italic |-> HasBit(attrs, 2),
                         underline |-> HasBit(attrs, 4),
                         strikethrough |-> HasBit(attrs, 8),
                         blink |-> HasBit(attrs, 16),
                         inverse |-> HasBit(attrs, 32)]]

\* The characters of UTF-8 bytes (one- and two-byte forms); <<-1>> marks
\* bytes that are not UTF-8.
RECURSIVE ReadChars(_, _)
ReadChars(bytes, out) ==
    IF bytes = <<>> THEN out
    ELSE IF bytes[1] < 128 THEN ReadChars(Tail(bytes), Append(out, bytes[1]))
    ELSE IF /\ bytes[1] >= 194 /\ bytes[1] < 224 /\ Len(bytes) >= 2
            /\ bytes[2] >= 128 /\ bytes[2] < 192
    THEN ReadChars(Tail(Tail(bytes)),
                   Append(out, (bytes[1] - 192) * 64 + (bytes[2] - 128)))
    ELSE <<-1>>

\* n runs from bytes[pos] on: startColumn, textByteLength, pen, textBytes.
RECURSIVE ReadRuns(_, _, _, _)
ReadRuns(bytes, pos, n, out) ==
    IF n <= 0 THEN [ok |-> TRUE, runs |-> out, next |-> pos]
    ELSE LET start == ReadVarint(bytes, pos, 1, 0)
             len == ReadVarint(bytes, start.next, 1, 0)
             pen == ReadPen(bytes, len.next)
         IN IF start.val < 0 \/ len.val < 0 \/ ~pen.ok
               \/ pen.next + len.val - 1 > Len(bytes)
            THEN [ok |-> FALSE, runs |-> out, next |-> pos]
            ELSE LET raw == SubSeq(bytes, pen.next, pen.next + len.val - 1)
                     run == [start |-> start.val, text |-> ReadChars(raw, <<>>),
                             pen |-> pen.pen]
                 IN ReadRuns(bytes, pen.next + len.val, n - 1, Append(out, run))

\* The row record that starts at bytes[pos]: runCount, then the runs.
ReadLine(bytes, pos) ==
    LET n == ReadVarint(bytes, pos, 1, 0)
    IN IF n.val < 0 THEN [ok |-> FALSE, runs |-> <<>>, next |-> pos]
       ELSE ReadRuns(bytes, n.next, n.val, <<>>)

RECURSIVE RunTexts(_)
RunTexts(runs) ==
    IF runs = <<>> THEN <<>> ELSE Head(runs).text \o RunTexts(Tail(runs))

LineDone == codec.kind = "line" /\ codec.done

RowChars(cells) == [i \in 1..Len(cells) |-> cells[i].ch]

\* C15: the runs encode_line writes for a row partition it: the record is
\* well formed, the first run starts at column 0, each later run starts at
\* the previous run's start plus its number of characters (no run is empty,
\* so starts increase strictly), and the run texts in order are the row's
\* characters.
C15_RunsPartitionRow ==
    LineDone =>
        LET d == ReadLine(codec.out, 1)
            runs == d.runs
        IN /\ d.ok /\ d.next = Len(codec.out) + 1
           /\ (runs # <<>> => runs[1].start = 0)
           /\ \A i \in 1..Len(runs) : Len(runs[i].text) >= 1
           /\ \A i \in 1..(Len(runs) - 1) :
                 runs[i + 1].start = runs[i].start + Len(runs[i].text)
           /\ RunTexts(runs) = RowChars(codec.input)

\* A row of three cells came out as two runs, the first of two characters
\* that take three bytes.
C15_Witness ==
    /\ LineDone /\ Len(codec.input) = 3
    /\ LET runs == ReadLine(codec.out, 1).runs
       IN /\ Len(runs) = 2
          /\ runs[1].text = <<233, 97>>
          /\ runs[2].start = 2

\* C16: the runs encode_line writes are maximal: every cell a run covers has
\* the run's Pen, no two adjacent runs carry an identical Pen, an empty row
\* gives zero runs, and a non-empty row whose cells share one Pen gives one
\* run that spans the row.
C16_RunsMaximal ==
    LineDone =>
        LET cells == codec.input
            runs == ReadLine(codec.out, 1).runs
        IN /\ \A i \in 1..Len(runs) : \A k \in 1..Len(runs[i].text) :
                 /\ runs[i].start + k <= Len(cells)
                 /\ WirePen(cells[runs[i].start + k].pen) = runs[i].pen
           /\ \A i \in 1..(Len(runs) - 1) : runs[i].pen # runs[i + 1].pen
           /\ (cells = <<>> => runs = <<>>)
           /\ (/\ cells # <<>>
               /\ \A i \in 1..Len(cells) :
                     WirePen(cells[i].pen) = WirePen(cells[1].pen))
              => /\ Len(runs) = 1
                 /\ runs[1].start = 0
                 /\ Len(runs[1].text) = Len(cells)

SnapshotDone == codec.kind = "snapshot" /\ codec.done

\* n row records from bytes[pos] on.
RECURSIVE ReadLines(_, _, _, _)
ReadLines(bytes, pos, n, out) ==
    IF n <= 0 THEN [ok |-> TRUE, lines |-> out, next |-> pos]
    ELSE LET line == ReadLine(bytes, pos)
         IN IF ~line.ok THEN [ok |-> FALSE, lines |-> out, next |-> pos]
            ELSE ReadLines(bytes, line.next, n - 1, Append(out, line.runs))

NoSnapshot ==
    [ok |-> FALSE, cols |-> 0, rows |-> 0,
     cursor |-> [col |-> 0, row |-> 0, visible |-> FALSE], lines |-> <<>>]

\* columns, rows, cursorColumn, cursorRow, cursorVisible, then `rows` row
\* records and nothing after them.
DecodeSnapshot(bytes) ==
    LET size == ReadVarints(bytes, 1, 2, <<>>)
        cur == ReadVarints(bytes, size.next, 2, <<>>)
    IN IF \/ \E i \in 1..2 : size.vals[i] < 0 \/ cur.vals[i] < 0
          \/ cur.next > Len(bytes)
          \/ bytes[cur.next] \notin {0, 1}
       THEN NoSnapshot
       ELSE LET lines == ReadLines(bytes, cur.next + 1, size.vals[2], <<>>)
            IN IF ~lines.ok \/ lines.next # Len(bytes) + 1 THEN NoSnapshot
               ELSE [ok |-> TRUE, cols |-> size.vals[1], rows |-> size.vals[2],
                     cursor |-> [col |-> cur.vals[1], row |-> cur.vals[2],
                                 visible |-> bytes[cur.next] = 1],
                     lines |-> lines.lines]

NoCell == [ch |-> -1, pen |-> WirePen(DefaultPen)]

\* The row a consumer paints from runs: column c shows the run that covers it.
Painted(runs, cols) ==
    [c \in 1..cols |->
        LET over == {i \in 1..Len(runs) :
                        /\ runs[i].start < c
                        /\ c <= runs[i].start + Len(runs[i].text)}
        IN IF over = {} THEN NoCell
           ELSE LET i == CHOOSE i \in over : TRUE
                IN [ch |-> runs[i].text[c - runs[i].start], pen |-> runs[i].pen]]

WireCells(cells) ==
    [i \in 1..Len(cells) |-> [ch |-> cells[i].ch, pen |-> WirePen(cells[i].pen)]]

====
